---------------------------- MODULE Spec2Model ----------------------------
(***************************************************************************)
(* basepaint_timelapse: the incremental paint-event retrieval with its     *)
(* pickle cache (src/create_timelapse.py) and the frame sampling and       *)
(* rasterisation loop (src/timelaps_render.py), driven by main's per-day   *)
(* loop.                                                                   *)
(*                                                                         *)
(* Two specifications share the module:                                    *)
(*   SpecRetrieve  runs of retrieve_contract_paint_events against a chain  *)
(*                 that grows between the runs;                            *)
(*   SpecRender    main's loop over the days, generate_timelapse_video and *)
(*                 render_timelapse_frames for each day.                   *)
(***************************************************************************)
EXTENDS Integers, Sequences, FiniteSets, TLC

VARIABLES
    \* ---- the chain (the Base mainnet node the program talks to)
    head,               \* number of the chain's latest block
    chain,              \* the Painted logs on chain, in chain order
    \* ---- the cache file .cache/paint_events_cache.pkl
    cache,
    \* ---- one call of retrieve_contract_paint_events
    rpc,                \* position: idle, loop, done, failed
    latest_block,       \* the argument latest_block
    day2paint_events,   \* day -> list of (x, y, color_index)
    day2block,          \* day -> timestamp of the block of its first event
    start_from_block,
    i,                  \* the loop variable of the window loop
    failure,            \* what was raised when rpc = "failed"
    \* ---- history of the runs (not program state)
    loaded,             \* what the run read from the cache file
    calls,              \* the get_logs calls of the run, in order
    cacheAtStart,       \* the cache file as the run found it
    saveOutcome,        \* how the run's save ended
    runs,               \* number of finished runs
    growths,            \* number of chain growth steps
    \* ---- main's loop over the days
    settings,           \* TimelapseSettings
    last_day,           \* the last day main renders
    day_number,         \* the day whose video is being generated
    mpc,                \* position: main, draw, returned, finished, error
    error,              \* what was raised when mpc = "error"
    videos,             \* the days whose video file exists
    \* ---- one call of render_timelapse_frames
    events,             \* painted_events[day_number]
    palette,            \* the day's palette
    events_per_frame,
    canvas,
    idx,                \* the index i of enumerate(events)
    frames,
    frame_index         \* history: the index i at which each frame was taken

retrieveVars == <<head, chain, cache, rpc, latest_block, day2paint_events,
                  day2block, start_from_block, i, failure, loaded, calls,
                  cacheAtStart, saveOutcome, runs, growths>>

renderVars == <<settings, last_day, day_number, mpc, error, videos, events,
                palette, events_per_frame, canvas, idx, frames, frame_index>>

vars == <<retrieveVars, renderVars>>

-----------------------------------------------------------------------------
(* Program constants of src/create_timelapse.py *)

CONTRACT_CREATION_BLOCK == 2385188

EVENT_LOG_MAX_BLOCKS_INTERVAL == 2000

(* Base mainnet (the provider main connects to): block b carries the Unix   *)
(* timestamp of its production, genesis time plus two seconds per block.    *)
BASE_GENESIS_TIMESTAMP == 1686789347

BASE_BLOCK_TIME == 2

Timestamp(b) == BASE_GENESIS_TIMESTAMP + BASE_BLOCK_TIME * b

-----------------------------------------------------------------------------
(* Bounds of the model *)

MaxDay == 2          \* days are 1..MaxDay

MaxGrowths == 3      \* chain growth steps

MaxRuns == 2         \* runs of the program

Days == 1..MaxDay

(* How far the chain grows in one step between two runs *)
BlockSteps == {1, EVENT_LOG_MAX_BLOCKS_INTERVAL}

(* The flat pixel arrays a Painted log may carry *)
PixelArrays == { <<1, 0, 1>>, <<0, 0, 0, 1, 1, 1>> }

-----------------------------------------------------------------------------
(* Helpers *)

Max(S) == CHOOSE m \in S : \A n \in S : n <= m

EmptyEvents == [d \in Days |-> <<>>]

EmptyBlocks == [d \in {} |-> 0]

(* zip(pixels[0::3], pixels[1::3], pixels[2::3]) *)
DecodePixels(pixels) ==
    [k \in 1..(Len(pixels) \div 3) |->
        <<pixels[3 * k - 2], pixels[3 * k - 1], pixels[3 * k]>>]

(* contract.events.Painted.get_logs(fromBlock, toBlock): both ends inclusive *)
GetLogs(fromBlock, toBlock) ==
    SelectSeq(chain, LAMBDA l : l.blockNumber >= fromBlock /\ l.blockNumber <= toBlock)

(* the body of `for event in painted_events`, for one event *)
ProcessEvent(st, event) ==
    [blk |-> IF event.day \in DOMAIN st.blk
             THEN st.blk
             ELSE [d \in DOMAIN st.blk \cup {event.day} |->
                      IF d = event.day THEN Timestamp(event.blockNumber)
                                       ELSE st.blk[d]],
     ev  |-> [st.ev EXCEPT ![event.day] = @ \o DecodePixels(event.pixels)]]

RECURSIVE ProcessEvents(_, _)
ProcessEvents(st, logs) ==
    IF logs = <<>> THEN st
    ELSE ProcessEvents(ProcessEvent(st, Head(logs)), Tail(logs))

(* a resume that starts over from the creation block *)
ResumeFromCreation(blocks) == CONTRACT_CREATION_BLOCK

(* start_from_block on resuming from a loaded cache *)
ResumeBlock(blocks) == Max({blocks[d] : d \in DOMAIN blocks}) + 1

AbsentCache == [status |-> "absent", day2paint_events |-> EmptyEvents,
                day2block |-> EmptyBlocks, windows |-> <<>>, latest |-> 0]

CorruptCache == [AbsentCache EXCEPT !.status = "corrupt"]

-----------------------------------------------------------------------------
(* The chain *)

LastDay == IF chain = <<>> THEN 1 ELSE chain[Len(chain)].day

(* Blocks are produced between two runs; the new head may hold a Painted log *)
ChainGrows ==
    /\ rpc = "idle"
    /\ growths < MaxGrowths
    /\ \E step \in BlockSteps :
         /\ head' = head + step
         /\ \/ chain' = chain
            \/ \E d \in {LastDay, LastDay + 1} \cap Days, p \in PixelArrays :
                 chain' = Append(chain, [blockNumber |-> head + step,
                                         day |-> d, pixels |-> p])
    /\ growths' = growths + 1
    /\ UNCHANGED <<cache, rpc, latest_block, day2paint_events, day2block,
                   start_from_block, i, failure, loaded, calls, cacheAtStart,
                   saveOutcome, runs>>
    /\ UNCHANGED renderVars

-----------------------------------------------------------------------------
(* retrieve_contract_paint_events *)

(* lines 60-69: the defaults, then the cache file if there is one *)
StartRun ==
    /\ rpc = "idle"
    /\ runs < MaxRuns
    /\ latest_block' = head
    /\ cacheAtStart' = cache
    /\ calls' = <<>>
    /\ saveOutcome' = "none"
    /\ loaded' = cache
    /\ CASE cache.status = "absent" ->
              /\ day2paint_events' = EmptyEvents
              /\ day2block' = EmptyBlocks
              /\ start_from_block' = CONTRACT_CREATION_BLOCK
              /\ i' = CONTRACT_CREATION_BLOCK
              /\ rpc' = "loop"
              /\ failure' = "none"
         [] cache.status = "corrupt" ->
              \* pickle.load raises, nothing catches it
              /\ day2paint_events' = EmptyEvents
              /\ day2block' = EmptyBlocks
              /\ start_from_block' = CONTRACT_CREATION_BLOCK
              /\ i' = CONTRACT_CREATION_BLOCK
              /\ rpc' = "failed"
              /\ failure' = "pickle.load"
         [] cache.status = "valid" /\ DOMAIN cache.day2block = {} ->
              \* max() of an empty sequence raises ValueError
              /\ day2paint_events' = cache.day2paint_events
              /\ day2block' = cache.day2block
              /\ start_from_block' = CONTRACT_CREATION_BLOCK
              /\ i' = CONTRACT_CREATION_BLOCK
              /\ rpc' = "failed"
              /\ failure' = "max"
         [] cache.status = "valid" /\ DOMAIN cache.day2block # {} ->
              /\ day2paint_events' = cache.day2paint_events
              /\ day2block' = cache.day2block
              /\ start_from_block' = ResumeBlock(cache.day2block)
              /\ i' = ResumeBlock(cache.day2block)
              /\ rpc' = "loop"
              /\ failure' = "none"
    /\ UNCHANGED <<head, chain, cache, runs, growths>>
    /\ UNCHANGED renderVars

(* lines 71-83: one window whose get_logs succeeds *)
QueryWindow ==
    /\ rpc = "loop"
    /\ i < latest_block
    /\ LET st == ProcessEvents([ev |-> day2paint_events, blk |-> day2block],
                               GetLogs(i, i + EVENT_LOG_MAX_BLOCKS_INTERVAL))
       IN  /\ day2paint_events' = st.ev
           /\ day2block' = st.blk
    /\ calls' = Append(calls, [fromBlock |-> i,
                               toBlock |-> i + EVENT_LOG_MAX_BLOCKS_INTERVAL,
                               latest |-> latest_block, ok |-> TRUE])
    /\ i' = i + EVENT_LOG_MAX_BLOCKS_INTERVAL
    /\ UNCHANGED <<head, chain, cache, rpc, latest_block, start_from_block,
                   failure, loaded, cacheAtStart, saveOutcome, runs, growths>>
    /\ UNCHANGED renderVars

(* a run that swallows the failure and goes on with the next window *)
GetLogsFailsSwallowed ==
    /\ rpc = "loop"
    /\ i < latest_block
    /\ calls' = Append(calls, [fromBlock |-> i,
                               toBlock |-> i + EVENT_LOG_MAX_BLOCKS_INTERVAL,
                               latest |-> latest_block, ok |-> FALSE])
    /\ i' = i + EVENT_LOG_MAX_BLOCKS_INTERVAL
    /\ failure' = "get_logs"
    /\ UNCHANGED <<head, chain, cache, rpc, latest_block, day2paint_events,
                   day2block, start_from_block, loaded, cacheAtStart, saveOutcome,
                   runs, growths>>
    /\ UNCHANGED renderVars

(* lines 72-75: get_logs raises, the run raises in turn *)
GetLogsFails ==
    /\ rpc = "loop"
    /\ i < latest_block
    /\ calls' = Append(calls, [fromBlock |-> i,
                               toBlock |-> i + EVENT_LOG_MAX_BLOCKS_INTERVAL,
                               latest |-> latest_block, ok |-> FALSE])
    /\ rpc' = "failed"
    /\ failure' = "get_logs"
    /\ UNCHANGED <<head, chain, cache, latest_block, day2paint_events, day2block,
                   start_from_block, i, loaded, cacheAtStart, saveOutcome, runs,
                   growths>>
    /\ UNCHANGED renderVars

(* what pickle.dump writes; the windows and the latest block are history *)
CacheWritten ==
    [status |-> "valid", day2paint_events |-> day2paint_events,
     day2block |-> day2block,
     windows |-> loaded.windows \o calls,
     latest |-> latest_block]

(* lines 85-93: the loop is over, the cache is written, the state returned *)
SaveCache ==
    /\ rpc = "loop"
    /\ i >= latest_block
    /\ \/ cache' = CacheWritten /\ saveOutcome' = "saved"
       \/ \* makedirs or open raises: the file is as it was
          cache' = cache /\ saveOutcome' = "not_written"
       \/ \* open truncated the file, then the write raises OSError
          cache' = CorruptCache /\ saveOutcome' = "truncated"
    /\ rpc' = "done"
    /\ UNCHANGED <<head, chain, latest_block, day2paint_events, day2block,
                   start_from_block, i, failure, loaded, calls, cacheAtStart,
                   runs, growths>>
    /\ UNCHANGED renderVars

(* the process ends; the next run is a new process *)
FinishRun ==
    /\ rpc \in {"done", "failed"}
    /\ rpc' = "idle"
    /\ runs' = runs + 1
    /\ UNCHANGED <<head, chain, cache, latest_block, day2paint_events, day2block,
                   start_from_block, i, failure, loaded, calls, cacheAtStart,
                   saveOutcome, growths>>
    /\ UNCHANGED renderVars

(* nothing is being rendered *)
RenderIdle ==
    /\ settings = [scale_factor |-> 1, frame_rate |-> 1, desired_duration |-> 1]
    /\ last_day = 0
    /\ day_number = 1
    /\ mpc = "finished"
    /\ error = "none"
    /\ videos = {}
    /\ events = <<>>
    /\ palette = <<>>
    /\ events_per_frame = 0
    /\ canvas = <<>>
    /\ idx = 0
    /\ frames = <<>>
    /\ frame_index = <<>>

(* the chain at the contract's creation, no cache file, no run yet *)
RetrieveStart ==
    /\ head = CONTRACT_CREATION_BLOCK
    /\ chain = <<>>
    /\ cache = AbsentCache
    /\ rpc = "idle"
    /\ latest_block = CONTRACT_CREATION_BLOCK
    /\ day2paint_events = EmptyEvents
    /\ day2block = EmptyBlocks
    /\ start_from_block = CONTRACT_CREATION_BLOCK
    /\ i = CONTRACT_CREATION_BLOCK
    /\ failure = "none"
    /\ loaded = AbsentCache
    /\ calls = <<>>
    /\ cacheAtStart = AbsentCache
    /\ saveOutcome = "none"
    /\ runs = 0
    /\ growths = 0

InitRetrieve == RetrieveStart /\ RenderIdle

NextRetrieve ==
    \/ ChainGrows
    \/ StartRun
    \/ QueryWindow
    \/ GetLogsFails
    \/ SaveCache
    \/ FinishRun

SpecRetrieve == InitRetrieve /\ [][NextRetrieve]_vars

-----------------------------------------------------------------------------
(* src/timelaps_render.py *)

RGB_LENGTH == 3

ALIGN == 16

(* Inputs of the rendering *)

MaxEvents == 5       \* events of one day

ScaleFactors == {1, 2}

FrameRates == {1, 2}

Durations == {1, 2}

(* the (x, y, color_index) triples a day's list is made of: two valid ones *)
(* on different cells and one whose color index is past the palette        *)
EventChoices == { <<0, 0, 0>>, <<1, 0, 1>>, <<0, 1, 2>> }

EventLists == UNION { [1..n -> EventChoices] : n \in 0..MaxEvents }

(* "#FF0000" and "#0F0", character by character *)
Palettes == { << <<"#", "F", "F", "0", "0", "0", "0">>, <<"#", "0", "F", "0">> >> }

(* np.empty leaves the array's memory as it was: any bytes. Two contents *)
(* stand for them, zeroed memory and memory that held something else.    *)
UninitPixels == { <<0, 0, 0>>, <<171, 205, 239>> }

HexDigits == <<"0", "1", "2", "3", "4", "5", "6", "7",
               "8", "9", "A", "B", "C", "D", "E", "F">>

HexValue(c) == (CHOOSE k \in 1..16 : HexDigits[k] = c) - 1

(* value.lstrip('#') *)
RECURSIVE LStripHash(_)
LStripHash(value) ==
    IF value # <<>> /\ Head(value) = "#" THEN LStripHash(Tail(value)) ELSE value

(* int(digits, 16) *)
RECURSIVE IntBase16(_)
IntBase16(digits) ==
    IF digits = <<>> THEN 0
    ELSE 16 * IntBase16(SubSeq(digits, 1, Len(digits) - 1))
         + HexValue(digits[Len(digits)])

(* hex_to_rgb: one integer per group of length // RGB_LENGTH digits *)
HexToRgb(value) ==
    LET v == LStripHash(value)
        length == Len(v)
        w == length \div RGB_LENGTH
        groups == (length + w - 1) \div w
    IN  [g \in 1..groups |->
            IntBase16(SubSeq(v, (g - 1) * w + 1,
                             IF g * w <= length THEN g * w ELSE length))]

(* get_nearest_size_divisible_by_16 *)
GetNearestSizeDivisibleBy16(dim) == ((dim + ALIGN - 1) \div ALIGN) * ALIGN

(* aligned_array((height, width, 3)): np.empty, indexed [row][column] *)
AlignedArray(height, width, content) ==
    [r \in 0..(height - 1) |-> [c \in 0..(width - 1) |-> content]]

(* draw_pixel_on_canvas with the two axes exchanged *)
DrawPixelTransposed(cv, x, y, color, scale_factor) ==
    [r \in DOMAIN cv |->
        IF r >= x * scale_factor /\ r < x * scale_factor + scale_factor
        THEN [c \in DOMAIN cv[r] |->
                IF c >= y * scale_factor /\ c < y * scale_factor + scale_factor
                THEN HexToRgb(color) ELSE cv[r][c]]
        ELSE cv[r]]

(* draw_pixel_on_canvas: rows upscale_y.., columns upscale_x.. *)
DrawPixelOnCanvas(cv, x, y, color, scale_factor) ==
    [r \in DOMAIN cv |->
        IF r >= y * scale_factor /\ r < y * scale_factor + scale_factor
        THEN [c \in DOMAIN cv[r] |->
                IF c >= x * scale_factor /\ c < x * scale_factor + scale_factor
                THEN HexToRgb(color) ELSE cv[r][c]]
        ELSE cv[r]]

(* a palette lookup that clamps the index to the last color *)
PaletteGetClamped(pal, color_index) ==
    IF color_index < Len(pal) THEN pal[color_index + 1] ELSE pal[Len(pal)]

(* palette[color_index], color_index an unsigned integer of the log *)
PaletteGet(pal, color_index) ==
    IF color_index < Len(pal) THEN pal[color_index + 1] ELSE "IndexError"

(* the sample rate rounded up instead of down *)
EventsPerFrameCeil(num_frames, st) ==
    (num_frames + st.desired_duration * st.frame_rate - 1)
        \div (st.desired_duration * st.frame_rate)

(* events_per_frame = num_frames // (desired_duration * frame_rate) *)
EventsPerFrame(num_frames, st) ==
    num_frames \div (st.desired_duration * st.frame_rate)

MaxOf(S) == CHOOSE m \in S : \A n \in S : n <= m

(* upscale_height, upscale_width of lines 100-105 *)
UpscaleHeight(ev, st) ==
    GetNearestSizeDivisibleBy16(
        (MaxOf({ev[k][2] : k \in DOMAIN ev}) + 1) * st.scale_factor)

UpscaleWidth(ev, st) ==
    GetNearestSizeDivisibleBy16(
        (MaxOf({ev[k][1] : k \in DOMAIN ev}) + 1) * st.scale_factor)

-----------------------------------------------------------------------------
(* main's loop, generate_timelapse_video and render_timelapse_frames.       *)
(* The day's entry of painted_events and of day2block is drawn when the day *)
(* is reached: a day with events has a timestamp (lines 78-83), a day       *)
(* without events has one only if a log with no pixels named it.            *)
(* The theme request of line 112 is taken to answer.                        *)

NoRender ==
    /\ palette' = <<>>
    /\ events_per_frame' = 0
    /\ canvas' = <<>>
    /\ idx' = 0
    /\ frames' = <<>>
    /\ frame_index' = <<>>

(* line 109: day2block.get(day_number) is None, utcfromtimestamp raises *)
GenerateNoTimestamp ==
    /\ mpc = "main"
    /\ events' = <<>>
    /\ mpc' = "error"
    /\ error' = "TypeError"
    /\ NoRender
    /\ UNCHANGED <<settings, last_day, day_number, videos>>
    /\ UNCHANGED retrieveVars

(* lines 97-98 and 109-112: render_timelapse_frames returns at once *)
GenerateSkips ==
    /\ mpc = "main"
    /\ \E ev \in EventLists :
         /\ Len(ev) = 0 \/ EventsPerFrame(Len(ev), settings) = 0
         /\ events' = ev
    /\ mpc' = "returned"
    /\ NoRender
    /\ UNCHANGED <<settings, last_day, day_number, error, videos>>
    /\ UNCHANGED retrieveVars

(* lines 100-114: the canvas is allocated and the loop begins *)
GenerateRenders ==
    /\ mpc = "main"
    /\ \E ev \in EventLists, pal \in Palettes, content \in UninitPixels :
         /\ Len(ev) # 0
         /\ EventsPerFrame(Len(ev), settings) # 0
         /\ events' = ev
         /\ palette' = pal
         /\ events_per_frame' = EventsPerFrame(Len(ev), settings)
         /\ canvas' = AlignedArray(UpscaleHeight(ev, settings),
                                   UpscaleWidth(ev, settings), content)
    /\ idx' = 0
    /\ frames' = <<>>
    /\ frame_index' = <<>>
    /\ mpc' = "draw"
    /\ UNCHANGED <<settings, last_day, day_number, error, videos>>
    /\ UNCHANGED retrieveVars

(* lines 116-121: one turn of the loop *)
DrawStep ==
    /\ mpc = "draw"
    /\ idx < Len(events)
    /\ LET x == events[idx + 1][1]
           y == events[idx + 1][2]
           color == PaletteGet(palette, events[idx + 1][3])
           drawn == DrawPixelOnCanvas(canvas, x, y, color, settings.scale_factor)
       IN  IF color = "IndexError"
           THEN /\ mpc' = "error"
                /\ error' = "IndexError"
                /\ UNCHANGED <<canvas, idx, frames, frame_index>>
           ELSE /\ canvas' = drawn
                /\ IF idx % events_per_frame = 0
                   THEN /\ frames' = Append(frames, drawn)
                        /\ frame_index' = Append(frame_index, idx)
                   ELSE UNCHANGED <<frames, frame_index>>
                /\ idx' = idx + 1
                /\ UNCHANGED <<mpc, error>>
    /\ UNCHANGED <<settings, last_day, day_number, videos, events, palette,
                   events_per_frame>>
    /\ UNCHANGED retrieveVars

(* lines 123-125: the frames are written, main goes on *)
WriteVideo ==
    /\ mpc = "draw"
    /\ idx = Len(events)
    /\ videos' = videos \cup {day_number}
    /\ mpc' = "returned"
    /\ UNCHANGED <<settings, last_day, day_number, error, events, palette,
                   events_per_frame, canvas, idx, frames, frame_index>>
    /\ UNCHANGED retrieveVars

(* lines 130-133: generate_timelapse_video has returned, its locals are *)
(* gone, the loop goes to the next day or main ends                      *)
NextDay ==
    /\ mpc = "returned"
    /\ day_number' = day_number + 1
    /\ mpc' = IF day_number + 1 > last_day THEN "finished" ELSE "main"
    /\ events' = <<>>
    /\ NoRender
    /\ UNCHANGED <<settings, last_day, error, videos>>
    /\ UNCHANGED retrieveVars

(* main with --day_number d renders day d; without, days 1..today *)
InitRender ==
    /\ RetrieveStart
    /\ settings \in [scale_factor : ScaleFactors, frame_rate : FrameRates,
                     desired_duration : Durations]
    /\ last_day \in Days
    /\ day_number \in {1, last_day}
    /\ mpc = "main"
    /\ error = "none"
    /\ videos = {}
    /\ events = <<>>
    /\ palette = <<>>
    /\ events_per_frame = 0
    /\ canvas = <<>>
    /\ idx = 0
    /\ frames = <<>>
    /\ frame_index = <<>>

NextRender ==
    \/ GenerateNoTimestamp
    \/ GenerateSkips
    \/ GenerateRenders
    \/ DrawStep
    \/ WriteVideo
    \/ NextDay

SpecRender == InitRender /\ [][NextRender]_vars

-----------------------------------------------------------------------------
(* Properties of the retrieval *)

Min(a, b) == IF a <= b THEN a ELSE b

(* the blocks a finished window has processed: those that existed *)
Overlaps(call, window) ==
    /\ call.fromBlock <= Min(window.toBlock, window.latest)
    /\ call.toBlock >= window.fromBlock

(* the triples of day d in the logs of blocks lo..hi, in chain order *)
RECURSIVE EventsOf(_, _, _, _)
EventsOf(logs, d, lo, hi) ==
    IF logs = <<>> THEN <<>>
    ELSE (IF Head(logs).day = d /\ Head(logs).blockNumber >= lo
                                /\ Head(logs).blockNumber <= hi
          THEN DecodePixels(Head(logs).pixels) ELSE <<>>)
         \o EventsOf(Tail(logs), d, lo, hi)

(* s occurs in t, in order, with other elements possibly between *)
RECURSIVE IsSubseq(_, _)
IsSubseq(s, t) ==
    IF s = <<>> THEN TRUE
    ELSE IF t = <<>> THEN FALSE
    ELSE IF Head(s) = Head(t) THEN IsSubseq(Tail(s), Tail(t))
    ELSE IsSubseq(s, Tail(t))

WindowsCovering(b) ==
    {k \in DOMAIN calls : calls[k].fromBlock <= b /\ b <= calls[k].toBlock}

(* C1: a run resumed from a saved cache queries no block that a window of  *)
(* the cache has processed, and with the chain as the cache's run saw it   *)
(* (same latest block, hence the same logs) the state it returns and the   *)
(* cache it writes are the loaded ones.                                    *)
C1_ResumeIsIdempotent ==
    loaded.status = "valid" =>
      /\ \A k \in DOMAIN calls : \A w \in DOMAIN loaded.windows :
            loaded.windows[w].ok => ~Overlaps(calls[k], loaded.windows[w])
      /\ (rpc = "done" /\ latest_block = loaded.latest) =>
            /\ day2paint_events = loaded.day2paint_events
            /\ day2block = loaded.day2block
            /\ saveOutcome = "saved" =>
                 /\ cache.day2paint_events = loaded.day2paint_events
                 /\ cache.day2block = loaded.day2block

(* C1: a run that resumed from a cache holding events and processed windows, *)
(* on an unchanged chain, has saved again                                    *)
C1_Witness ==
    /\ loaded.status = "valid"
    /\ loaded.windows # <<>>
    /\ \E d \in Days : loaded.day2paint_events[d] # <<>>
    /\ latest_block = loaded.latest
    /\ rpc = "done"
    /\ saveOutcome = "saved"

(* C5: cache failures are not fatal: with the cache file absent or         *)
(* unreadable the run starts from CONTRACT_CREATION_BLOCK and proceeds, and *)
(* a failed save still returns the state.                                  *)
C5_CacheFailuresNonFatal ==
    /\ (rpc # "idle" /\ loaded.status \in {"absent", "corrupt"}) =>
          /\ failure # "pickle.load"
          /\ start_from_block = CONTRACT_CREATION_BLOCK
    /\ (rpc # "loop" /\ saveOutcome \in {"not_written", "truncated"}) =>
          rpc \in {"done", "idle"}

(* C6: a failed window query ends the run at once, the window is asked for *)
(* once only, and the cache file stays as the run found it.                *)
C6_FailedWindowAborts ==
    (\E k \in DOMAIN calls : ~calls[k].ok) =>
      /\ rpc \in {"failed", "idle"}
      /\ failure = "get_logs"
      /\ cache = cacheAtStart
      /\ ~calls[Len(calls)].ok
      /\ \A k \in 1..(Len(calls) - 1) :
            calls[k].ok /\ calls[k].fromBlock # calls[Len(calls)].fromBlock

(* C6: a run failed in its second window, after the first had added events *)
C6_Witness ==
    /\ rpc = "failed"
    /\ failure = "get_logs"
    /\ Len(calls) = 2
    /\ day2paint_events # EmptyEvents

(* C9: in a pass from the creation block the windows partition the blocks: *)
(* every block holding a Painted log lies in exactly one window, no window *)
(* reaches further than EVENT_LOG_MAX_BLOCKS_INTERVAL, and each log's      *)
(* triples are in its day's list exactly once, in chain order.             *)
C9_WindowsPartition ==
    (rpc = "done" /\ loaded.status = "absent") =>
      /\ \A n \in DOMAIN chain :
            chain[n].blockNumber \in start_from_block..latest_block =>
               Cardinality(WindowsCovering(chain[n].blockNumber)) = 1
      /\ \A k \in DOMAIN calls :
            calls[k].toBlock - calls[k].fromBlock <= EVENT_LOG_MAX_BLOCKS_INTERVAL
      /\ \A d \in Days :
            day2paint_events[d] = EventsOf(chain, d, start_from_block, latest_block)

(* C10: the state a run returns holds, for every day, all the events of    *)
(* the blocks from CONTRACT_CREATION_BLOCK to the run's latest block, in   *)
(* chain order.                                                            *)
C10_NoEventLost ==
    rpc = "done" =>
      \A d \in Days :
         IsSubseq(EventsOf(chain, d, CONTRACT_CREATION_BLOCK, latest_block),
                  day2paint_events[d])

-----------------------------------------------------------------------------
(* Properties of the rendering *)

CeilDiv(a, b) == (a + b - 1) \div b

(* the cells <<row, column>> of an array *)
Cells(cv) == {<<r, c>> : r \in DOMAIN cv, c \in DOMAIN cv[0]}

(* the cells of the block of event e *)
Block(e) ==
    LET sf == settings.scale_factor
    IN  ((e[2] * sf)..(e[2] * sf + sf - 1)) \X ((e[1] * sf)..(e[1] * sf + sf - 1))

(* the cells the first n events have drawn *)
DrawnCells(n) == UNION {Block(events[k]) : k \in 1..n}

(* the last of the first n events that drew cell c *)
LastWriter(c, n) == MaxOf({k \in 1..n : c \in Block(events[k])})

ColorOfEvent(k) == HexToRgb(palette[events[k][3] + 1])

(* the number of events applied when frame j was taken *)
Applied(j) == frame_index[j] + 1

SampleRate == Len(events) \div (settings.desired_duration * settings.frame_rate)

Written == mpc = "returned" /\ day_number \in videos

(* C2: the sample rate is E // (D*R); at rate 0 nothing is emitted and no  *)
(* file written; otherwise the frames are taken at the zero-based indexes  *)
(* that are multiples of the rate, all E events are applied in order, and  *)
(* ceil(E / rate) frames are written.                                      *)
C2_FrameSampling ==
    /\ (mpc = "draw" \/ Written) =>
          /\ events_per_frame = SampleRate
          /\ SampleRate > 0
          /\ frame_index = [j \in 1..CeilDiv(idx, SampleRate) |-> (j - 1) * SampleRate]
          /\ Len(frames) = Len(frame_index)
    /\ Written =>
          /\ idx = Len(events)
          /\ Len(frames) = CeilDiv(Len(events), SampleRate)
          /\ \A c \in DrawnCells(Len(events)) :
                canvas[c[1]][c[2]] = ColorOfEvent(LastWriter(c, Len(events)))
    /\ (mpc = "returned" /\ SampleRate = 0) =>
          /\ frames = <<>>
          /\ day_number \notin videos

(* C2: five events at rate 2 gave the three frames of indexes 0, 2, 4 *)
C2_Witness ==
    /\ Written
    /\ Len(events) = 5
    /\ SampleRate = 2
    /\ frame_index = <<0, 2, 4>>

(* C3 as claimed: each frame's drawn cells are a strict superset of the *)
(* previous frame's.                                                    *)
C3_StrictlyMoreDrawn ==
    \A j \in 2..Len(frames) :
       /\ DrawnCells(Applied(j - 1)) \subseteq DrawnCells(Applied(j))
       /\ DrawnCells(Applied(j - 1)) # DrawnCells(Applied(j))

(* C3 as amended: each frame is the cumulative canvas of the events applied *)
(* so far, more events than for the frame before it: its drawn cells are a  *)
(* superset of the previous frame's, each holding the color of the last     *)
(* event that drew it, and no frame is without drawn cells.                 *)
C3_FramesAccumulate ==
    \A j \in 1..Len(frames) :
       /\ DrawnCells(Applied(j)) # {}
       /\ DrawnCells(Applied(j)) \subseteq Cells(frames[j])
       /\ \A c \in DrawnCells(Applied(j)) :
             frames[j][c[1]][c[2]] = ColorOfEvent(LastWriter(c, Applied(j)))
       /\ j > 1 =>
             /\ Applied(j - 1) < Applied(j)
             /\ DrawnCells(Applied(j - 1)) \subseteq DrawnCells(Applied(j))

(* C3: three frames, the second adding cells to the first, the third none *)
C3_Witness ==
    /\ Len(frames) = 3
    /\ DrawnCells(Applied(1)) # DrawnCells(Applied(2))
    /\ DrawnCells(Applied(2)) = DrawnCells(Applied(3))

(* C4: a day without cached events, or with sample rate zero, is skipped: *)
(* nothing is raised for it and no video is written for it.               *)
C4_EmptyDaySkipped ==
    /\ mpc = "error" => (Len(events) # 0 /\ SampleRate # 0)
    /\ (mpc = "returned" /\ (Len(events) = 0 \/ SampleRate = 0)) =>
          day_number \notin videos

(* C7: an event whose color index is past the palette is never applied:  *)
(* the rendering raises at it and writes no video for the day, and every *)
(* drawn cell of every frame holds the palette color of an applied event *)
C7_BadColorIndexFatal ==
    /\ \A k \in 1..idx : events[k][3] < Len(palette)
    /\ (mpc = "error" /\ error = "IndexError") =>
          /\ events[idx + 1][3] >= Len(palette)
          /\ day_number \notin videos
    /\ (mpc = "draw" /\ idx < Len(events) /\ events[idx + 1][3] >= Len(palette)) =>
          day_number \notin videos
    /\ \A j \in 1..Len(frames) : \A c \in DrawnCells(Applied(j)) :
          frames[j][c[1]][c[2]] \in {ColorOfEvent(k) : k \in 1..Applied(j)}

(* C7: the rendering raised at a bad color index after frames were taken *)
C7_Witness ==
    /\ mpc = "error"
    /\ error = "IndexError"
    /\ Len(frames) >= 2

(* C8: the canvas starts black: in every frame each cell that no applied  *)
(* event has drawn is black, and the drawn cells lie inside               *)
(* [0, (maxX+1)*scaleFactor) x [0, (maxY+1)*scaleFactor).                 *)
C8_UndrawnCellsBlack ==
    \A j \in 1..Len(frames) :
       /\ \A c \in Cells(frames[j]) \ DrawnCells(Applied(j)) :
             frames[j][c[1]][c[2]] = <<0, 0, 0>>
       /\ \A c \in DrawnCells(Applied(j)) :
             /\ c[1] < (MaxOf({events[k][2] : k \in DOMAIN events}) + 1)
                          * settings.scale_factor
             /\ c[2] < (MaxOf({events[k][1] : k \in DOMAIN events}) + 1)
                          * settings.scale_factor

=============================================================================
